---- MODULE Spec2Model ----
(***************************************************************************)
(* A model of choose_next.py: the selection round (choose_next_file), the  *)
(* round loop (choose_next), the logfile helpers and the sort key.         *)
(*                                                                         *)
(* A string is a sequence of one-character strings, so that splitting,     *)
(* joining and the numeric prefix of a name are computed, not assumed.     *)
(* The absent value (Python's None, or no path at all) is the empty        *)
(* string <<>>: every path of the model has at least one character.        *)
(***************************************************************************)
EXTENDS Integers, Sequences, FiniteSets, TLC

\* How many of AllFiles can exist below the root directory.
NumFiles == 3

\* How many FILE arguments one invocation takes at most.
MaxFiles == 1

\* How many rounds a session of invocations keeps in rounds at most.
MaxRounds == 3

\* The largest --number of one invocation.
MaxNumber == 2

\* How many lines the log of a session holds at its start at most.
MaxLog == 2

None == <<>>

(***************************************************************************)
(* Characters.  Alphabet lists the characters of the model in code point   *)
(* order; the C locale collates by code point.                             *)
(***************************************************************************)
Alphabet == <<" ", "+", "-", ".", "/", "0", "1", "2", "3", "4", "5", "6", "7", "8", "9",
              "a", "b", "c", "e", "o", "r", "x">>

Digits == {"0", "1", "2", "3", "4", "5", "6", "7", "8", "9"}

Whitespace == {" "}

Signs == {"+", "-"}

sep == "/"

pardir == <<".", ".">>

curdir == <<".">>

Ord(c) == CHOOSE k \in 1..Len(Alphabet) : Alphabet[k] = c

DigitValue(c) == Ord(c) - Ord("0")

RECURSIVE pow10(_)
pow10(n) == IF n = 0 THEN 1 ELSE 10 * pow10(n - 1)

\* int() of a run of digits
RECURSIVE digits_value(_)
digits_value(ds) ==
    IF ds = <<>> THEN 0
    ELSE 10 * digits_value(SubSeq(ds, 1, Len(ds) - 1)) + DigitValue(ds[Len(ds)])

\* How many characters of s, from position p on, lie in class without a gap.
RECURSIVE span(_, _, _)
span(s, p, class) ==
    IF p <= Len(s) /\ s[p] \in class THEN 1 + span(s, p + 1, class) ELSE 0

(***************************************************************************)
(* str.split(sep) and sep.join(list)                                       *)
(***************************************************************************)
RECURSIVE split(_)
split_at(s, n) ==
    IF n = Len(s) THEN <<s>>
    ELSE <<SubSeq(s, 1, n)>> \o split(SubSeq(s, n + 2, Len(s)))

split(s) == split_at(s, span(s, 1, {c \in {s[k] : k \in 1..Len(s)} : c # sep}))

RECURSIVE join(_)
join(list) ==
    IF list = <<>> THEN <<>>
    ELSE IF Len(list) = 1 THEN list[1]
    ELSE list[1] \o <<sep>> \o join(Tail(list))

isabs(path) == Len(path) > 0 /\ path[1] = sep

\* os.path.join(a, b) for two components
path_join(a, b) ==
    IF isabs(b) THEN b
    ELSE IF a = <<>> \/ a[Len(a)] = sep THEN a \o b
    ELSE a \o <<sep>> \o b

(***************************************************************************)
(* os.path.normpath: drops empty and "." components, resolves ".." against *)
(* the component before it, keeps a leading "..", of a relative path.      *)
(***************************************************************************)
RECURSIVE norm_comps(_, _, _)
norm_comps(comps, new_comps, initial_slashes) ==
    IF comps = <<>> THEN new_comps
    ELSE LET comp == Head(comps)
             n    == Len(new_comps)
             next == IF comp = <<>> \/ comp = curdir
                        THEN new_comps
                     ELSE IF comp # pardir
                             \/ (~initial_slashes /\ n = 0)
                             \/ (n > 0 /\ new_comps[n] = pardir)
                        THEN Append(new_comps, comp)
                     ELSE IF n > 0
                        THEN SubSeq(new_comps, 1, n - 1)
                     ELSE new_comps
         IN  norm_comps(Tail(comps), next, initial_slashes)

or_curdir(path) == IF path = <<>> THEN curdir ELSE path

normpath(path) ==
    IF path = <<>> THEN curdir
    ELSE or_curdir((IF isabs(path) THEN <<sep>> ELSE <<>>)
                   \o join(norm_comps(split(path), <<>>, isabs(path))))

\* The components of an absolute path, as os.path.relpath lists them.
nonempty(x) == x # <<>>

path_list(abspath) == SelectSeq(split(normpath(abspath)), nonempty)

RECURSIVE commonprefix_len(_, _)
commonprefix_len(l1, l2) ==
    IF l1 # <<>> /\ l2 # <<>> /\ Head(l1) = Head(l2)
    THEN 1 + commonprefix_len(Tail(l1), Tail(l2))
    ELSE 0

\* os.path.relpath(path, start) for absolute path and start
RECURSIVE times(_, _)
times(x, n) == IF n <= 0 THEN <<>> ELSE <<x>> \o times(x, n - 1)

rel_list(start_list, plist, common) ==
    times(pardir, Len(start_list) - common) \o SubSeq(plist, common + 1, Len(plist))

relpath_lists(start_list, plist) ==
    or_curdir(join(rel_list(start_list, plist, commonprefix_len(start_list, plist))))

relpath(path, start) == relpath_lists(path_list(start), path_list(path))

startswith(s, prefix) ==
    Len(s) >= Len(prefix) /\ SubSeq(s, 1, Len(prefix)) = prefix

(***************************************************************************)
(* make_relpath, logfile_entry_to_path.  A raised Error is the value       *)
(* Outside, which is no path: it starts with no character of a name.       *)
(***************************************************************************)
Outside == <<"leads outside given directory">>

inside_or_error(rel) ==
    IF startswith(rel, pardir \o <<sep>>) THEN Outside ELSE rel

make_relpath(path, start) == inside_or_error(relpath(path, start))

logfile_entry_to_path(entry, dirpath) ==
    make_relpath(IF isabs(entry) THEN entry ELSE path_join(dirpath, entry), dirpath)

(***************************************************************************)
(* numkey.  NUMKEY_REGEX, matched at the start of the string, has two     *)
(* groups: group 1 is optional whitespace, an optional sign, one or more   *)
(* digits, an optional dot, further digits and whitespace; group 2 is the  *)
(* rest.  Every quantifier is greedy and group 2 takes anything, so group  *)
(* 1 is the longest such prefix.  The value float() gives group 1 is       *)
(* kept exact as num / 10^scale.                                           *)
(***************************************************************************)
regex_groups(string, begin, int, dot, frac) ==
    [match    |-> int > 0,
     negative |-> begin > 0 /\ string[begin] = "-",
     digits   |-> SubSeq(string, begin + 1, begin + int)
                  \o SubSeq(string, begin + int + dot + 1, begin + int + dot + frac),
     scale    |-> frac,
     group2   |-> SubSeq(string,
                         begin + int + dot + frac
                         + span(string, begin + int + dot + frac + 1, Whitespace) + 1,
                         Len(string))]

regex_fraction(string, begin, int, dot) ==
    regex_groups(string, begin, int, dot, span(string, begin + int + dot + 1, Digits))

regex_dot(string, begin, int) ==
    regex_fraction(string, begin, int,
                   IF begin + int < Len(string) /\ string[begin + int + 1] = "."
                   THEN 1 ELSE 0)

\* begin: the position of the last character before the digits
regex_digits(string, begin) == regex_dot(string, begin, span(string, begin + 1, Digits))

regex_sign(string, ws) ==
    regex_digits(string, IF ws < Len(string) /\ string[ws + 1] \in Signs
                         THEN ws + 1 ELSE ws)

NUMKEY_REGEX(string) == regex_sign(string, span(string, 1, Whitespace))

\* locale.strxfrm in the C locale: the code points
strxfrm(string) == [k \in 1..Len(string) |-> Ord(string[k])]

\* a variant that takes no number out of the string
numkey_lexical(m, string) == [num |-> 0, scale |-> 0, str |-> strxfrm(string)]

numkey_of(m, string) ==
    IF m.match
    THEN [num   |-> (IF m.negative THEN -1 ELSE 1) * digits_value(m.digits),
          scale |-> m.scale,
          str   |-> strxfrm(m.group2)]
    ELSE [num |-> 0, scale |-> 0, str |-> strxfrm(string)]

numkey(string) == numkey_of(NUMKEY_REGEX(string), string)

path_split_all(path) == split(normpath(path))

numkeys(elems) == [k \in 1..Len(elems) |-> numkey(elems[k])]

numkey_path(path) == numkeys(path_split_all(path))

(***************************************************************************)
(* Python's order on the keys: floats by value, strings and tuples         *)
(* lexicographically, a proper prefix first.                               *)
(***************************************************************************)
float_lt(x, y) == x.num * pow10(y.scale) < y.num * pow10(x.scale)

float_eq(x, y) == x.num * pow10(y.scale) = y.num * pow10(x.scale)

str_lt(s, t) ==
    \E k \in 1..(Len(t)) :
        /\ k <= Len(s) + 1
        /\ \A j \in 1..(k - 1) : s[j] = t[j]
        /\ (k = Len(s) + 1 \/ s[k] < t[k])

numkey_lt(x, y) == float_lt(x, y) \/ (float_eq(x, y) /\ str_lt(x.str, y.str))

numkey_eq(x, y) == float_eq(x, y) /\ x.str = y.str

key_lt(t1, t2) ==
    \E k \in 1..Len(t2) :
        /\ k <= Len(t1) + 1
        /\ \A j \in 1..(k - 1) : numkey_eq(t1[j], t2[j])
        /\ (k = Len(t1) + 1 \/ numkey_lt(t1[k], t2[k]))

\* The names of the files that can exist below the root directory.
AllFiles == << <<"a">>, <<"0", "a">>, <<"b">>, <<"c">> >>

\* Files and a directory with numbers in their names: 2 (a directory), 2/3 e,
\* 2/20 e, 10/5 e, -1 e, e, 0 x
SortFiles ==
    {<<"2">>, <<"2", "/", "3", " ", "e">>, <<"2", "/", "2", "0", " ", "e">>,
     <<"1", "0", "/", "5", " ", "e">>, <<"-", "1", " ", "e">>, <<"e">>, <<"0", " ", "x">>}

\* A directory tree: the files a and .b, the directory x with the files x/a
\* and x/.c, the directory .o with the file .o/a.  An entry has the names on
\* the way to it from the top.
TreeEntries ==
    {[names |-> << <<"a">> >>, dir |-> FALSE],
     [names |-> << <<".", "b">> >>, dir |-> FALSE],
     [names |-> << <<"x">> >>, dir |-> TRUE],
     [names |-> << <<"x">>, <<"a">> >>, dir |-> FALSE],
     [names |-> << <<"x">>, <<".", "c">> >>, dir |-> FALSE],
     [names |-> << <<".", "o">> >>, dir |-> TRUE],
     [names |-> << <<".", "o">>, <<"a">> >>, dir |-> FALSE]}

TreeFiles == {join(e.names) : e \in TreeEntries}

\* list.sort computes the key of every element once
sort_keys ==
    [path \in {AllFiles[k] : k \in 1..Len(AllFiles)} \cup SortFiles \cup TreeFiles |->
        numkey_path(path)] @@ <<>>

(***************************************************************************)
(* list.sort(key=numkey_path) is stable: an element goes behind every      *)
(* element whose key is not greater.  The list sorted is list(a set),      *)
(* whose order is the set's iteration order: any order at all, and not the *)
(* same from one process to the next (string hashes are salted).           *)
(***************************************************************************)
insert_at(sorted, path, n) ==
    SubSeq(sorted, 1, n) \o <<path>> \o SubSeq(sorted, n + 1, Len(sorted))

insert(sorted, path) ==
    insert_at(sorted, path,
              Cardinality({k \in 1..Len(sorted) :
                               ~key_lt(sort_keys[path], sort_keys[sorted[k]])}))

RECURSIVE sort(_)
sort(list) ==
    IF list = <<>> THEN <<>>
    ELSE insert(sort(SubSeq(list, 1, Len(list) - 1)), list[Len(list)])

RECURSIVE iterations(_)
iterations(set) ==
    IF set = {} THEN {<<>>}
    ELSE UNION {{<<x>> \o rest : rest \in iterations(set \ {x})} : x \in set}

(***************************************************************************)
(* The world of the model: the root directory, the files that can exist    *)
(* below it, and the FILE arguments of the command line (absolute, as      *)
(* os.path.realpath returns them), one of them outside the root.           *)
(***************************************************************************)
Universe == {AllFiles[k] : k \in 1..NumFiles}

RootDir == <<"/", "r">>

\* Two roots that the old log names do not tell apart: /r_o and /r/o
Roots == {<<"/", "r", "_", "o">>, <<"/", "r", "/", "o">>}

FileArgs == {path_join(RootDir, <<"a">>), path_join(RootDir, <<"b">>),
             <<"/", "o", "/", "x">>}

\* FILE arguments and log lines that lead out of the root or to its border: the
\* parent of the root, a sibling of the root, the root itself
EscapeArgs == {<<"/">>, <<"/", "o", "/", "x">>, RootDir, path_join(RootDir, <<"a">>)}

EscapeLines == {<<"a">>, curdir, pardir, <<"/", "o", "/", "x">>}

\* sorted(list(set)) for every iteration order of the set; @@ makes TLC compute
\* the table once
sorted_lists ==
    [set \in SUBSET Universe |-> {sort(list) : list \in iterations(set)}] @@ <<>>

sorted_sort_files ==
    [set \in SUBSET SortFiles |-> {sort(list) : list \in iterations(set)}] @@ <<>>

sorted_tree_files ==
    [set \in SUBSET TreeFiles |-> {sort(list) : list \in iterations(set)}] @@ <<>>

\* available_list after available_list.sort(key=numkey_path)
sorted_of(set) ==
    IF set \subseteq Universe THEN sorted_lists[set]
    ELSE IF set \subseteq SortFiles THEN sorted_sort_files[set]
    ELSE sorted_tree_files[set]

set_of(list) == {list[k] : k \in 1..Len(list)}

(***************************************************************************)
(* The state.                                                              *)
(***************************************************************************)
VARIABLES
    paths,            \* what read_dir returns: the relative paths below the root
    logfile,          \* the lines of the log file, first line first
    logfile_exists,   \* whether the log file exists
    pc,               \* "idle", "choose_next" (in the round loop), "exit", "failed"
    args,             \* the parsed command line of the running invocation
    i,                \* choose_next's round counter
    next_file,        \* the file the last round chose (None: none)
    rewrite_logfile,  \* whether the last round found nothing remaining (wrapped)
    retval,           \* the command's status in the last round
    available_list,   \* the sorted candidates of the last round
    logfile_content_list, \* the log as the last round read it
    error,            \* the message of the Error raised ("" : none)
    rounds            \* the rounds of a session of invocations, oldest first

vars == <<paths, logfile, logfile_exists, pc, args, i, next_file, rewrite_logfile,
          retval, available_list, logfile_content_list, error, rounds>>

NoArgs == [dir |-> None, files |-> <<>>, number |-> 0,
           last |-> FALSE, random |-> FALSE, no_read |-> FALSE, no_write |-> FALSE,
           prepend |-> FALSE, command |-> FALSE,
           clear |-> FALSE, clear_first |-> FALSE, clear_last |-> FALSE]

\* The command lines of one selection: the default -n 1, at most MaxFiles FILEs.
RECURSIVE lists_upto(_, _)
lists_upto(set, n) ==
    IF n = 0 THEN {<<>>}
    ELSE LET shorter == lists_upto(set, n - 1)
         IN  shorter \cup {Append(l, x) : l \in {m \in shorter : Len(m) = n - 1}, x \in set}

DefaultNumber == 1

ChooseArgv ==
    [dir : {RootDir}, files : lists_upto(FileArgs, MaxFiles), number : {DefaultNumber},
     last : BOOLEAN, random : BOOLEAN, no_read : BOOLEAN, no_write : BOOLEAN,
     prepend : BOOLEAN, command : BOOLEAN,
     clear : {FALSE}, clear_first : {FALSE}, clear_last : {FALSE}]

Init ==
    /\ paths \in SUBSET Universe
    /\ logfile = <<>>
    /\ logfile_exists = FALSE
    /\ pc = "idle"
    /\ args = NoArgs
    /\ i = 0
    /\ next_file = None
    /\ rewrite_logfile = FALSE
    /\ retval = 0
    /\ available_list = <<>>
    /\ logfile_content_list = <<>>
    /\ error = ""
    /\ rounds = <<>>

(***************************************************************************)
(* The logfile helpers.                                                    *)
(***************************************************************************)
\* logfile_entry_to_path for every line a log can hold and every FILE argument,
\* computed once
relative ==
    [entry \in Universe \cup FileArgs \cup EscapeArgs \cup EscapeLines \cup SortFiles
                \cup TreeFiles,
     dirpath \in {RootDir} \cup Roots |->
         logfile_entry_to_path(entry, dirpath)] @@ <<>>

\* read_logfile: a missing file reads as no entries
read_logfile(lines, dirpath) == [k \in 1..Len(lines) |-> relative[lines[k], dirpath]]

\* write_logfile: the file holds exactly the entries
write_logfile(entries) == entries

\* logfile_append: mode 'ab' adds a line, mode 'wb' truncates first
logfile_append(lines, entry, mode) ==
    IF mode = "ab" THEN Append(lines, entry) ELSE <<entry>>

\* a variant that puts the new entry behind the old ones
logfile_prepend_behind(entry, old_entries) == write_logfile(old_entries \o <<entry>>)

logfile_prepend(entry, old_entries) == write_logfile(<<entry>> \o old_entries)

(***************************************************************************)
(* choose_next_file, in the order of the code.                             *)
(***************************************************************************)
\* a variant that reads the log even under --no-read
played_list_read(a, content_list) == content_list

played_list_of(a, content_list) ==
    IF ~a.no_read THEN content_list ELSE <<>>

\* a variant that forgets the set difference
unplayed_all(available, played_list) == available

\* remaining before the wrap: available - played
unplayed(available, played_list) == available \ set_of(played_list)

wraps(available, played_list) == unplayed(available, played_list) = {}

\* a variant that takes every available file as remaining
remaining_all(available, played_list) == available

remaining_of(available, played_list) ==
    IF wraps(available, played_list) THEN available
    ELSE unplayed(available, played_list)

\* islice(cycle(list), index, None): the element at 0-based position j >= index
cycle(list, j) == list[(j % Len(list)) + 1]

\* list.index(x), 0-based
index_of(list, x) == (CHOOSE k \in 1..Len(list) : list[k] = x) - 1

\* a variant that always scans from the head of the list
start_index_first(avail_list, played_list) == 0

start_index(avail_list, played_list) ==
    IF played_list # <<>> /\ played_list[Len(played_list)] \in set_of(avail_list)
    THEN index_of(avail_list, played_list[Len(played_list)]) + 1
    ELSE 0

\* next(filter(lambda path: path in remaining, islice(cycle(available_list), index, None)))
next_from(avail_list, index, remaining) ==
    cycle(avail_list,
          CHOOSE j \in index..(index + Len(avail_list) - 1) :
              /\ cycle(avail_list, j) \in remaining
              /\ \A k \in index..(j - 1) : cycle(avail_list, k) \notin remaining)

next_sequential(avail_list, played_list, remaining) ==
    next_from(avail_list, start_index(avail_list, played_list), remaining)

\* a variant that honours the explicit file only while it remains to be played
selected_if_remaining(a, explicit, avail_list, played_list, remaining) ==
    IF explicit # None /\ explicit \in remaining THEN {explicit}
    ELSE IF a.last /\ played_list # <<>> THEN {played_list[Len(played_list)]}
    ELSE IF a.random THEN remaining
    ELSE {next_sequential(avail_list, played_list, remaining)}

\* The files the selection can return, given the explicit file (or None).
selected(a, explicit, avail_list, played_list, remaining) ==
    IF explicit # None THEN {explicit}
    ELSE IF a.last /\ played_list # <<>> THEN {played_list[Len(played_list)]}
    ELSE IF a.random THEN remaining
    ELSE {next_sequential(avail_list, played_list, remaining)}

\* a variant that never truncates the log
written_keeping(a, lines, content_list, file, rewrite) ==
    IF file \notin set_of(content_list) \/ rewrite
    THEN IF a.prepend
         THEN logfile_prepend(file, content_list)
         ELSE logfile_append(lines, file, "ab")
    ELSE lines

\* a variant that records the file whether or not the log holds it
written_always(a, lines, content_list, file, rewrite) ==
    IF a.prepend
    THEN logfile_prepend(file, IF ~rewrite THEN content_list ELSE <<>>)
    ELSE logfile_append(lines, file, IF ~rewrite THEN "ab" ELSE "wb")

\* The log after the round's write step.
written(a, lines, content_list, file, rewrite) ==
    IF file \notin set_of(content_list) \/ rewrite
    THEN IF a.prepend
         THEN logfile_prepend(file, IF ~rewrite THEN content_list ELSE <<>>)
         ELSE logfile_append(lines, file, IF ~rewrite THEN "ab" ELSE "wb")
    ELSE lines

\* list(available): the iteration order of a set of the same elements, built
\* the same way, is the same throughout one process
same_process(lists) == IF i = 0 THEN lists ELSE lists \cap {available_list}

raise(msg) ==
    /\ pc' = "failed"
    /\ error' = msg

\* choose_next's bookkeeping after a round that returned retval
loop_step(rv) ==
    IF rv # 0 THEN raise("command failed") /\ i' = i
    ELSE /\ i' = i + 1
         /\ error' = error
         /\ pc' = IF args.number >= 0 /\ i + 1 >= args.number THEN "exit" ELSE "choose_next"

\* A write step that does not look at the command's status.
write_step_any_status(file, rv, content_list, rewrite) ==
    IF ~args.no_write
    THEN /\ logfile' = written(args, logfile, content_list, file, rewrite)
         /\ logfile_exists' = TRUE
    ELSE UNCHANGED <<logfile, logfile_exists>>

\* A write step that looks for the file among the played files, of which there
\* are none under --no-read, and not among the entries of the log.
write_step_played(file, rv, content_list, rewrite) ==
    IF rv = 0 /\ ~args.no_write
    THEN /\ logfile' = written(args, logfile, played_list_of(args, content_list), file,
                               rewrite)
         /\ logfile_exists' = TRUE
    ELSE UNCHANGED <<logfile, logfile_exists>>

\* The write step: only after a command that succeeded, and not under --no-write.
write_step(file, rv, content_list, rewrite) ==
    IF rv = 0 /\ ~args.no_write
    THEN /\ logfile' = written(args, logfile, content_list, file, rewrite)
         /\ logfile_exists' = (logfile_exists \/ rewrite
                               \/ file \notin set_of(content_list))
    ELSE UNCHANGED <<logfile, logfile_exists>>

\* a variant that lets an explicit file stand in for the files that lack
none_available_unless_explicit(explicit, remaining) == remaining = {} /\ explicit = None

\* if not remaining: raise Error('no files available in ...')
none_available(explicit, remaining) == remaining = {}

select_and_record(explicit, content_list, played_list, remaining, rewrite) ==
    IF none_available(explicit, remaining)
    THEN /\ raise("no files available")
         /\ rewrite_logfile' = rewrite
         /\ available_list' = <<>>
         /\ logfile_content_list' = content_list
         /\ UNCHANGED <<paths, logfile, logfile_exists, args, i, next_file, retval>>
    ELSE \E avail_list \in same_process(sorted_of(paths)) :
         \E file \in selected(args, explicit, avail_list, played_list, remaining) :
         \E rv \in IF args.command THEN {0, 1} ELSE {0} :
             /\ available_list' = avail_list
             /\ logfile_content_list' = content_list
             /\ rewrite_logfile' = rewrite
             /\ next_file' = file
             /\ retval' = rv
             /\ write_step(file, rv, content_list, rewrite)
             /\ loop_step(rv)
             /\ UNCHANGED <<paths, args>>

round_with(explicit, content_list, played_list) ==
    select_and_record(explicit, content_list, played_list,
                      remaining_of(paths, played_list), wraps(paths, played_list))

round(explicit, content_list) ==
    IF Outside \in set_of(content_list)
    THEN /\ raise(Outside[1])
         /\ UNCHANGED <<paths, logfile, logfile_exists, args, i, next_file,
                        rewrite_logfile, retval, available_list, logfile_content_list>>
    ELSE round_with(explicit, content_list, played_list_of(args, content_list))

\* choose_next: the explicit file of round j (0-based), if there is one
explicit_of(a, j) == IF j < Len(a.files) THEN a.files[j + 1] ELSE None

choose_next_round ==
    /\ pc = "choose_next"
    /\ round(explicit_of(args, i), read_logfile(logfile, args.dir))

choose_next_file == choose_next_round /\ UNCHANGED rounds

(***************************************************************************)
(* main_throws: the command line is parsed, the FILE arguments are made    *)
(* relative to the root, and the operation asked for is run.               *)
(***************************************************************************)
\* a variant that leaves --number as it was given
with_files_unraised(argv, files) == [argv EXCEPT !.files = files]

with_files(argv, files) ==
    [argv EXCEPT !.files = files,
                 !.number = IF 0 <= argv.number /\ argv.number <= Len(files)
                            THEN Len(files) ELSE argv.number]

parsed(argv) ==
    with_files(argv, [k \in 1..Len(argv.files) |-> relative[argv.files[k], argv.dir]])

start(a) ==
    IF Outside \in set_of(a.files)
    THEN raise(Outside[1]) /\ args' = args
    ELSE /\ pc' = "choose_next"
         /\ args' = a
         /\ error' = ""

main_with(argvs) ==
    /\ pc = "idle"
    /\ \E argv \in argvs : start(parsed(argv))
    /\ i' = 0
    /\ UNCHANGED <<paths, logfile, logfile_exists, next_file, rewrite_logfile, retval,
                   available_list, logfile_content_list>>

main_choose == main_with(ChooseArgv) /\ UNCHANGED rounds

\* os.unlink: the errno it can end with; the directory of the log may forbid
\* the removal whether the file is there or not
unlink(exists) == IF exists THEN {"", "EACCES"} ELSE {"ENOENT", "EACCES"}

\* 'error removing logfile {}: {}'.format(logfile, exc.strerror)
removing ==
    [errno \in {"ENOENT", "EACCES"} |->
        IF errno = "ENOENT" THEN "error removing logfile: No such file or directory"
        ELSE "error removing logfile: Permission denied"]

\* a variant that takes a missing file for an error too
clear_logfile_strict(errno) ==
    IF errno # ""
    THEN raise(removing[errno]) /\ UNCHANGED <<logfile, logfile_exists>>
    ELSE /\ logfile' = <<>>
         /\ logfile_exists' = FALSE
         /\ pc' = "exit"
         /\ error' = error

\* clear_logfile: unlink, a missing file is no error
clear_logfile(errno) ==
    IF errno \notin {"", "ENOENT"}
    THEN raise(removing[errno]) /\ UNCHANGED <<logfile, logfile_exists>>
    ELSE /\ logfile' = <<>>
         /\ logfile_exists' = FALSE
         /\ pc' = "exit"
         /\ error' = error

main_clear ==
    /\ pc = "idle"
    /\ args' = [NoArgs EXCEPT !.dir = RootDir, !.clear = TRUE]
    /\ \E errno \in unlink(logfile_exists) : clear_logfile(errno)
    /\ UNCHANGED <<paths, i, next_file, rewrite_logfile, retval, available_list,
                   logfile_content_list, rounds>>

\* modify_logfile: del entries[0], del entries[-1]; the second del of a list the
\* first one emptied raises IndexError, which is no Error
modify_entries(entries, rest, clear_last) ==
    IF Outside \in set_of(entries)
    THEN raise(Outside[1]) /\ UNCHANGED <<logfile, logfile_exists>>
    ELSE IF entries = <<>>
    THEN pc' = "exit" /\ UNCHANGED <<logfile, logfile_exists, error>>
    ELSE IF clear_last /\ rest = <<>>
    THEN raise("IndexError") /\ UNCHANGED <<logfile, logfile_exists>>
    ELSE /\ logfile' = write_logfile(IF clear_last THEN SubSeq(rest, 1, Len(rest) - 1)
                                     ELSE rest)
         /\ logfile_exists' = TRUE
         /\ pc' = "exit"
         /\ error' = error

after_first(entries, clear_first) ==
    IF clear_first /\ entries # <<>> THEN Tail(entries) ELSE entries

modify_read(entries, clear_first, clear_last) ==
    modify_entries(entries, after_first(entries, clear_first), clear_last)

modify_logfile(clear_first, clear_last) ==
    modify_read(read_logfile(logfile, RootDir), clear_first, clear_last)

main_modify ==
    /\ pc = "idle"
    /\ \E clear_first, clear_last \in BOOLEAN :
           /\ clear_first \/ clear_last
           /\ args' = [NoArgs EXCEPT !.dir = RootDir, !.clear_first = clear_first,
                                     !.clear_last = clear_last]
           /\ modify_logfile(clear_first, clear_last)
    /\ UNCHANGED <<paths, i, next_file, rewrite_logfile, retval, available_list,
                   logfile_content_list, rounds>>

\* The process ends; nothing of it stays but the log file.
exit ==
    /\ pc \in {"exit", "failed"}
    /\ pc' = "idle"
    /\ args' = NoArgs
    /\ i' = 0
    /\ next_file' = None
    /\ rewrite_logfile' = FALSE
    /\ retval' = 0
    /\ available_list' = <<>>
    /\ logfile_content_list' = <<>>
    /\ error' = ""
    /\ UNCHANGED <<paths, logfile, logfile_exists, rounds>>

\* Between invocations a file appears below the root or disappears from it.
read_dir_changes ==
    /\ pc = "idle"
    /\ \E f \in Universe : paths' = IF f \in paths THEN paths \ {f} ELSE paths \cup {f}
    /\ UNCHANGED <<logfile, logfile_exists, pc, args, i, next_file, rewrite_logfile,
                   retval, available_list, logfile_content_list, error, rounds>>

Next ==
    \/ main_choose
    \/ choose_next_file
    \/ main_clear
    \/ main_modify
    \/ exit
    \/ read_dir_changes

Spec == Init /\ [][Next]_vars

(***************************************************************************)
(* Sessions: the program run again and again, one round an invocation,     *)
(* with rounds keeping what every round chose.                             *)
(***************************************************************************)
\* the round wrote the file it chose to the log
recorded_round ==
    /\ retval' = 0
    /\ ~args.no_write
    /\ (rewrite_logfile' \/ next_file' \notin set_of(logfile_content_list'))

\* what a round that chose a file leaves in rounds
round_record == [args |-> args, file |-> next_file', recorded |-> recorded_round]

\* the round raised an Error before it chose
chose_nothing == error' \in {"no files available", Outside[1]}

\* Sequential and RepeatLast invocations over a directory that does not change
SessionArgv ==
    [dir : {RootDir}, files : {<<>>}, number : {DefaultNumber},
     last : BOOLEAN, random : {FALSE}, no_read : {FALSE}, no_write : BOOLEAN,
     prepend : BOOLEAN, command : {FALSE},
     clear : {FALSE}, clear_first : {FALSE}, clear_last : {FALSE}]

session_choose ==
    /\ Len(rounds) < MaxRounds
    /\ main_with(SessionArgv)
    /\ UNCHANGED rounds

session_round ==
    /\ choose_next_round
    /\ rounds' = IF chose_nothing THEN rounds ELSE Append(rounds, round_record)

SessionNext ==
    \/ session_choose
    \/ session_round
    \/ exit

SpecSession == Init /\ [][SessionNext]_vars

\* Sequential and Random invocations that read the log, over a directory that
\* changes; rounds starts again with every round that wraps
SinceWrapArgv ==
    [dir : {RootDir}, files : {<<>>}, number : {DefaultNumber},
     last : {FALSE}, random : BOOLEAN, no_read : {FALSE}, no_write : BOOLEAN,
     prepend : BOOLEAN, command : BOOLEAN,
     clear : {FALSE}, clear_first : {FALSE}, clear_last : {FALSE}]

since_wrap_record == [file |-> next_file', recorded |-> recorded_round]

since_wrap_choose ==
    /\ Len(rounds) < MaxRounds
    /\ main_with(SinceWrapArgv)
    /\ UNCHANGED rounds

since_wrap_round ==
    /\ choose_next_round
    /\ rounds' = IF chose_nothing THEN rounds
                 ELSE IF rewrite_logfile' THEN <<since_wrap_record>>
                 ELSE Append(rounds, since_wrap_record)

SinceWrapNext ==
    \/ since_wrap_choose
    \/ since_wrap_round
    \/ exit
    \/ read_dir_changes

SpecSinceWrap == Init /\ [][SinceWrapNext]_vars

(***************************************************************************)
(* What the last round of the running invocation leaves to observe, and    *)
(* the rules the selection and the log are held against.                   *)
(***************************************************************************)
\* a round of the running invocation has chosen a file
returned == next_file # None

\* the explicit file handed to that round
explicit == explicit_of(args, IF retval = 0 THEN i - 1 ELSE i)

\* the history the round loaded
history == IF args.no_read THEN <<>> ELSE logfile_content_list

\* the records of the log as it is now
records == read_logfile(logfile, RootDir)

\* no candidate is outside the loaded history
wrapped == paths \subseteq set_of(history)

\* the round was to write the log: its command succeeded and writing is enabled
written_round == returned /\ retval = 0 /\ ~args.no_write

\* the round took the Sequential branch of the selection
sequential ==
    returned /\ explicit = None /\ ~args.random /\ ~(args.last /\ history # <<>>)

\* list holds exactly the entries of set, in an order their keys do not contradict
sorted_by_key(list, set) ==
    /\ set_of(list) = set
    /\ Len(list) = Cardinality(set)
    /\ \A j, k \in 1..Len(list) :
           j < k => ~key_lt(numkey_path(list[k]), numkey_path(list[j]))

\* the 0-based position just after the history's last entry
position_after_last(list, H) ==
    IF H # <<>> /\ H[Len(H)] \in set_of(list)
    THEN CHOOSE k \in 1..Len(list) : list[k] = H[Len(H)]
    ELSE 0

remaining_ref(C, H) == IF C \ set_of(H) = {} THEN C ELSE C \ set_of(H)

\* the entry d steps behind 0-based position p, cyclically
scan(list, p, d) == list[((p + d) % Len(list)) + 1]

first_hit(list, p, rem) ==
    scan(list, p, CHOOSE d \in 0..(Len(list) - 1) :
                      /\ scan(list, p, d) \in rem
                      /\ \A e \in 0..(d - 1) : scan(list, p, e) \notin rem)

\* the log a recording round leaves
record_of(pre, file, wrap, prepend) ==
    IF wrap THEN <<file>>
    ELSE IF file \in set_of(pre) THEN pre
    ELSE IF prepend THEN <<file>> \o pre
    ELSE Append(pre, file)

(***************************************************************************)
(* C2: Sequential selection returns the entry of the reference rule: the   *)
(* candidates sorted by key, scanned cyclically from the position just     *)
(* after the history's last entry (0 if there is none or it is no          *)
(* candidate), up to the first entry that remains; when every candidate    *)
(* is in the history that entry is the cyclic successor of the last one.   *)
(***************************************************************************)
C2_sequential_reference ==
    sequential =>
        /\ sorted_by_key(available_list, paths)
        /\ next_file = first_hit(available_list,
                                 position_after_last(available_list, history),
                                 remaining_ref(paths, history))
        /\ (wrapped /\ history # <<>> /\ history[Len(history)] \in paths
                => next_file = scan(available_list,
                                    position_after_last(available_list, history), 0))

\* a wrapping Sequential round whose successor of the last entry is not the first
\* candidate
C2_witness ==
    /\ sequential
    /\ wrapped
    /\ Len(history) >= 2
    /\ history[Len(history)] \in paths
    /\ next_file # available_list[1]

(***************************************************************************)
(* C3: after a round that wraps, with writing enabled and the command      *)
(* succeeding, the log holds exactly one record, the chosen entry, in      *)
(* append and in prepend mode and for every selection mode.                *)
(***************************************************************************)
C3_wrap_leaves_one_record ==
    written_round /\ wrapped => records = <<next_file>>

\* a wrapping round that found two records or more and left one
C3_witness ==
    /\ written_round
    /\ wrapped
    /\ Len(logfile_content_list) >= 2
    /\ args.prepend
    /\ records = <<next_file>>

(***************************************************************************)
(* C4: a round that does not wrap and chooses an entry the log already     *)
(* holds leaves the log exactly as it was.                                 *)
(***************************************************************************)
C4_no_duplicate_record ==
    returned /\ ~wrapped /\ next_file \in set_of(logfile_content_list)
        => records = logfile_content_list

\* a writing round that chose, without wrapping, an entry the log held first of two
C4_witness ==
    /\ written_round
    /\ ~wrapped
    /\ Len(logfile_content_list) >= 2
    /\ next_file = logfile_content_list[1]
    /\ records = logfile_content_list

(***************************************************************************)
(* C7: under --no-read with writing enabled a Sequential round chooses the *)
(* first candidate in sort order whatever the log holds, does not wrap or  *)
(* truncate, and the log gains the chosen entry only if it did not hold it.*)
(***************************************************************************)
C7_no_read_first_candidate ==
    returned /\ args.no_read /\ ~args.no_write /\ explicit = None /\ ~args.random =>
        /\ sorted_by_key(available_list, paths)
        /\ next_file = available_list[1]
        /\ ~rewrite_logfile
        /\ records = IF retval = 0
                     THEN record_of(logfile_content_list, next_file, FALSE, args.prepend)
                     ELSE logfile_content_list

\* a --no-read round over candidates that the log held all of, two or more
C7_witness ==
    /\ written_round
    /\ args.no_read
    /\ explicit = None
    /\ ~args.random
    /\ paths \subseteq set_of(logfile_content_list)
    /\ Len(logfile_content_list) >= 2
    /\ next_file = available_list[1]

(***************************************************************************)
(* C8: in prepend mode an entry newly recorded by a round that does not    *)
(* wrap becomes the first record, and the records there were follow it in  *)
(* the order they had.                                                     *)
(***************************************************************************)
C8_prepend_puts_first ==
    written_round /\ args.prepend /\ ~wrapped
        /\ next_file \notin set_of(logfile_content_list)
        => records = <<next_file>> \o logfile_content_list

\* a prepending round that recorded a third entry
C8_witness ==
    /\ written_round
    /\ args.prepend
    /\ ~wrapped
    /\ Len(logfile_content_list) = 2
    /\ records = <<next_file>> \o logfile_content_list

(***************************************************************************)
(* C10: an explicit file handed to a round over a non-empty candidate set  *)
(* is the chosen entry, whatever the mode, the history and the candidates, *)
(* and it is recorded as any other choice is.                              *)
(***************************************************************************)
C10_explicit_file_chosen ==
    returned /\ explicit # None =>
        /\ next_file = explicit
        /\ written_round =>
               records = record_of(logfile_content_list, next_file,
                                   wrapped, args.prepend)

\* an explicit file that is no candidate and is in the history already, chosen in
\* random mode
C10_witness ==
    /\ returned
    /\ explicit # None
    /\ next_file = explicit
    /\ next_file \notin paths
    /\ next_file \in set_of(history)
    /\ args.random

(***************************************************************************)
(* Sessions of rounds.                                                     *)
(***************************************************************************)
\* the candidates sort in one way only: no two of them have equal keys
tie_free == Cardinality(sorted_lists[paths]) = 1

sorted_paths == CHOOSE list \in sorted_lists[paths] : TRUE

\* round r was Sequential, read the log and recorded into it
sequential_rw(r) == ~r.args.last /\ ~r.args.no_write

\* round r was Sequential and did not write
sequential_nw(r) == ~r.args.last /\ r.args.no_write

\* the last of the rounds before round k that wrote its file to the log
last_recorded(k) == CHOOSE j \in 1..(k - 1) :
                        /\ rounds[j].recorded
                        /\ \A m \in (j + 1)..(k - 1) : ~rounds[m].recorded

(***************************************************************************)
(* C1: from an empty log and N candidates, successive Sequential rounds    *)
(* that read and write the log choose every candidate once, in the order   *)
(* of the keys, in the first N rounds, and round N+1 chooses the first     *)
(* candidate again; in append mode and in prepend mode.                    *)
(***************************************************************************)
C1_visits_in_key_order ==
    (/\ tie_free
     /\ \A k \in 1..Len(rounds) : /\ sequential_rw(rounds[k])
                                  /\ rounds[k].args.prepend = rounds[1].args.prepend)
        => \A k \in 1..Len(rounds) :
               k <= Cardinality(paths) + 1
                   => rounds[k].file = scan(sorted_paths, 0, k - 1)

C9_last_is_most_recent ==
    \A k \in 1..Len(rounds) :
        rounds[k].args.last /\ (\E j \in 1..(k - 1) : rounds[j].recorded)
            => rounds[k].file = rounds[last_recorded(k)].file

EscapeArgv ==
    [dir : {RootDir}, files : lists_upto(EscapeArgs, MaxFiles), number : {DefaultNumber},
     last : {FALSE}, random : {FALSE}, no_read : BOOLEAN, no_write : BOOLEAN,
     prepend : {FALSE}, command : {FALSE},
     clear : {FALSE}, clear_first : {FALSE}, clear_last : {FALSE}]

EscapeInit ==
    /\ paths \in SUBSET Universe
    /\ logfile \in lists_upto(EscapeLines, MaxFiles)
    /\ logfile_exists = (logfile # <<>>)
    /\ pc = "idle"
    /\ args = NoArgs
    /\ i = 0
    /\ next_file = None
    /\ rewrite_logfile = FALSE
    /\ retval = 0
    /\ available_list = <<>>
    /\ logfile_content_list = <<>>
    /\ error = ""
    /\ rounds = <<>>

escape_choose == main_with(EscapeArgv) /\ UNCHANGED rounds

EscapeNext ==
    \/ escape_choose
    \/ choose_next_file
    \/ exit

SpecEscape == EscapeInit /\ [][EscapeNext]_vars

\* where an entry of the log or of the command line resolves to
resolved(entry) ==
    normpath(IF isabs(entry) THEN entry ELSE path_join(RootDir, entry))

\* the entry resolves neither to the root nor to a location beneath it
escapes(entry) ==
    /\ resolved(entry) # RootDir
    /\ ~startswith(resolved(entry), RootDir \o <<sep>>)

(***************************************************************************)
(* C11: a log record or an explicit file that resolves to anything but the *)
(* root or a location beneath it makes the invocation fail with the        *)
(* path-escape error: no invocation gets past its command line with such a *)
(* file, no round chooses with such a record in the history it read, no    *)
(* such entry is chosen, and a failed invocation leaves the log as it was. *)
(***************************************************************************)
C11_escape_rejected ==
    [][/\ pc' \in {"choose_next", "exit"} =>
              \A k \in 1..Len(args'.files) : ~escapes(args'.files[k])
       /\ next_file' # None =>
              /\ ~escapes(next_file')
              /\ \A k \in 1..Len(logfile_content_list') :
                     ~escapes(logfile_content_list'[k])
       /\ pc' = "failed" /\ error' = Outside[1] => logfile' = logfile]_vars


(***************************************************************************)
(* Runs: one invocation of choose_next with --number rounds, rounds        *)
(* keeping what every round of the invocation chose and left in the log.   *)
(***************************************************************************)
RunArgv ==
    [dir : {RootDir}, files : {<<>>}, number : 0..MaxNumber,
     last : {FALSE}, random : BOOLEAN, no_read : {FALSE}, no_write : {FALSE},
     prepend : BOOLEAN, command : BOOLEAN,
     clear : {FALSE}, clear_first : {FALSE}, clear_last : {FALSE}]

run_record == [file |-> next_file', retval |-> retval', logfile |-> logfile']

run_choose ==
    /\ main_with(RunArgv)
    /\ rounds' = <<>>

run_round ==
    /\ choose_next_round
    /\ rounds' = IF chose_nothing THEN rounds ELSE Append(rounds, run_record)

RunNext ==
    \/ run_choose
    \/ run_round
    \/ exit

SpecRun == Init /\ [][RunNext]_vars

\* C12: when the command of round j fails, the run ends with "command failed",
\* no later round runs, and the log is the one round j read, which is the one
\* round j-1 left: round j's entry is not written and a wrap truncates nothing.
C12_failed_command_aborts ==
    /\ pc = "choose_next" => \A j \in 1..Len(rounds) : rounds[j].retval = 0
    /\ retval # 0 =>
           /\ pc = "failed"
           /\ error = "command failed"
           /\ Len(rounds) = i + 1
           /\ \A j \in 1..i : rounds[j].retval = 0
           /\ records = logfile_content_list
           /\ i > 0 => logfile = rounds[i].logfile

\* the command of a second round fails in a round that wrapped
C12_witness ==
    /\ retval # 0
    /\ i >= 1
    /\ rewrite_logfile
    /\ logfile # <<>>

\* C13: a run in which no round fails performs exactly --number rounds and
\* then ends normally; with --number 0 it chooses nothing, with --number 2 over
\* the files a and b and an empty log it chooses a and then b.
C13_performs_number_rounds ==
    pc = "exit" /\ args.number >= 0 =>
        /\ Len(rounds) = args.number
        /\ i = args.number


(***************************************************************************)
(* Coverage: Sequential or Random invocations, one round each, repeated    *)
(* over a directory that does not change, from any log of files.           *)
(***************************************************************************)
CoverInit ==
    /\ paths \in SUBSET Universe
    /\ logfile \in lists_upto(Universe, MaxLog)
    /\ logfile_exists = (logfile # <<>>)
    /\ pc = "idle"
    /\ args = NoArgs
    /\ i = 0
    /\ next_file = None
    /\ rewrite_logfile = FALSE
    /\ retval = 0
    /\ available_list = <<>>
    /\ logfile_content_list = <<>>
    /\ error = ""
    /\ rounds = <<>>

CoverArgv ==
    [dir : {RootDir}, files : {<<>>}, number : {DefaultNumber},
     last : {FALSE}, random : BOOLEAN, no_read : {FALSE}, no_write : {FALSE},
     prepend : BOOLEAN, command : {FALSE},
     clear : {FALSE}, clear_first : {FALSE}, clear_last : {FALSE}]

\* every invocation of one session has the options of the first
same_options ==
    {argv \in CoverArgv : rounds # <<>> => /\ argv.random = rounds[1].random
                                           /\ argv.prepend = rounds[1].prepend}

cover_record ==
    [file |-> next_file', random |-> args.random, prepend |-> args.prepend,
     history |-> Len(logfile_content_list')]

cover_choose ==
    /\ Len(rounds) < 2 * Cardinality(paths)
    /\ main_with(same_options)
    /\ UNCHANGED rounds

cover_round ==
    /\ choose_next_round
    /\ rounds' = IF chose_nothing THEN rounds ELSE Append(rounds, cover_record)

CoverNext ==
    \/ cover_choose
    \/ cover_round
    \/ exit

SpecCover == CoverInit /\ [][CoverNext]_vars /\ WF_vars(CoverNext)

\* the files the first n rounds of the session chose
chosen_in(n) == {rounds[k].file : k \in 1..(IF n < Len(rounds) THEN n ELSE Len(rounds))}

each_chosen_once(n) ==
    \A j, k \in 1..n : rounds[j].file = rounds[k].file => j = k

without_first(entries, clear_first) ==
    IF clear_first /\ entries # <<>> THEN Tail(entries) ELSE entries

without_last(entries, clear_last) ==
    IF clear_last /\ entries # <<>> THEN SubSeq(entries, 1, Len(entries) - 1) ELSE entries

dropped(entries, clear_first, clear_last) ==
    without_last(without_first(entries, clear_first), clear_last)

\* C15: --clear-first and --clear-last, one or both, end without a failure and
\* leave the log with the records it had, in their order, without the first
\* and without the last one; an empty log stays empty, and a log of one record
\* is empty after both.
C15_modify_drops ==
    [][pc = "idle" /\ (args'.clear_first \/ args'.clear_last) =>
           /\ pc' = "exit"
           /\ read_logfile(logfile', RootDir) =
                  dropped(read_logfile(logfile, RootDir), args'.clear_first, args'.clear_last)]_vars


\* C16: --clear ends without an error when there is no log, and leaves no
\* record behind whatever the log held, so that a Sequential round reading
\* the log chooses the first file in sort order; --clear fails, with "error
\* removing logfile", only for an errno other than ENOENT.
C16_clear_empties ==
    /\ args.clear =>
           \/ /\ pc = "exit"
              /\ ~logfile_exists
              /\ records = <<>>
           \/ /\ pc = "failed"
              /\ error \in {removing[errno] : errno \in {"EACCES"}}
    /\ /\ returned
       /\ explicit = None
       /\ ~args.random
       /\ ~logfile_exists \/ logfile_content_list = <<>>
       => /\ logfile_content_list = <<>>
          /\ next_file = available_list[1]

\* --clear has removed the log
C16_witness ==
    /\ args.clear
    /\ pc = "exit"
    /\ Cardinality(paths) >= 2


\* an invocation that chooses files, and has come to its first round
chooses == args.dir # None /\ ~args.clear /\ ~args.clear_first /\ ~args.clear_last

\* C17: with no file available a round fails with "no files available",
\* whatever the mode and the log, and with an explicit file too; it chooses
\* and prints nothing, runs no command and leaves the log as it read it.
C17_no_files_available ==
    /\ paths = {}
    /\ chooses
    /\ pc \in {"exit", "failed"}
    /\ error # Outside[1]
    => /\ pc = "failed"
       /\ error = "no files available"
       /\ i = 0
       /\ ~returned
       /\ retval = 0
       /\ records = logfile_content_list

\* the round had an explicit file and a log of earlier rounds
C17_witness ==
    /\ paths = {}
    /\ chooses
    /\ pc = "failed"
    /\ error = "no files available"
    /\ args.files # <<>>
    /\ logfile # <<>>


(***************************************************************************)
(* The log as the bytes of its file: write_logfile writes every entry      *)
(* followed by os.linesep, read_logfile opens the file in text mode, where *)
(* iteration ends a line at "\n", at "\r" and at "\r\n" alike and hands it *)
(* over with the ending translated to "\n".                                *)
(***************************************************************************)
linesep == "\n"

RECURSIVE stream_write(_)
stream_write(entries) ==
    IF entries = <<>> THEN <<>>
    ELSE Head(entries) \o <<linesep>> \o stream_write(Tail(entries))

RECURSIVE stream_lines(_, _, _)
stream_lines(data, line, acc) ==
    IF data = <<>> THEN IF line = <<>> THEN acc ELSE Append(acc, line)
    ELSE IF Len(data) >= 2 /\ data[1] = "\r" /\ data[2] = "\n"
    THEN stream_lines(Tail(Tail(data)), <<>>, Append(acc, Append(line, "\n")))
    ELSE IF data[1] \in {"\r", "\n"}
    THEN stream_lines(Tail(data), <<>>, Append(acc, Append(line, "\n")))
    ELSE stream_lines(Tail(data), Append(line, data[1]), acc)

RECURSIVE rstrip(_, _)
rstrip(line, chars) ==
    IF line # <<>> /\ line[Len(line)] \in chars
    THEN rstrip(SubSeq(line, 1, Len(line) - 1), chars)
    ELSE line

entries_of(lines, dirpath) ==
    [k \in 1..Len(lines) |-> logfile_entry_to_path(rstrip(lines[k], {"\r", "\n"}), dirpath)]

read_stream(data, dirpath) == entries_of(stream_lines(data, <<>>, <<>>), dirpath)

\* Relative paths below the root, none of them with a "\n" in a name.
LogEntries ==
    {<<"a">>, <<"b">>, <<"a", "/", "b">>, <<"0", "a">>,
     <<"a", "\r", "b">>, <<"a", "\r">>}

StreamInit ==
    /\ paths = {}
    /\ logfile = <<>>
    /\ logfile_exists = FALSE
    /\ pc = "idle"
    /\ args = NoArgs
    /\ i = 0
    /\ next_file = None
    /\ rewrite_logfile = FALSE
    /\ retval = 0
    /\ available_list = <<>>
    /\ logfile_content_list = <<>>
    /\ error = ""
    /\ rounds = <<>>

\* write_logfile(path, entries); rounds keeps the entries, logfile has the bytes
stream_written ==
    /\ pc = "idle"
    /\ \E entries \in lists_upto(LogEntries, MaxLog) :
           /\ rounds' = entries
           /\ logfile' = stream_write(entries)
    /\ logfile_exists' = TRUE
    /\ pc' = "written"
    /\ UNCHANGED <<paths, args, i, next_file, rewrite_logfile, retval, available_list,
                   logfile_content_list, error>>

\* read_logfile(path, dirpath)
stream_read ==
    /\ pc = "written"
    /\ logfile_content_list' = read_stream(logfile, RootDir)
    /\ pc' = "exit"
    /\ UNCHANGED <<paths, logfile, logfile_exists, args, i, next_file, rewrite_logfile,
                   retval, available_list, error, rounds>>

StreamNext ==
    \/ stream_written
    \/ stream_read
    \/ exit

SpecStream == StreamInit /\ [][StreamNext]_vars

\* C18: a sequence of relative entries without "\n" in their names, written to
\* the log and read back against the same root, is the same sequence.
C18_round_trip ==
    pc = "exit" => logfile_content_list = rounds


(***************************************************************************)
(* Sorting: Sequential invocations, one round each, over the files of      *)
(* SortFiles, from an empty log; rounds keeps the files chosen.            *)
(***************************************************************************)
SortInit ==
    /\ paths \in SUBSET SortFiles
    /\ logfile = <<>>
    /\ logfile_exists = FALSE
    /\ pc = "idle"
    /\ args = NoArgs
    /\ i = 0
    /\ next_file = None
    /\ rewrite_logfile = FALSE
    /\ retval = 0
    /\ available_list = <<>>
    /\ logfile_content_list = <<>>
    /\ error = ""
    /\ rounds = <<>>

SortArgv ==
    [dir : {RootDir}, files : {<<>>}, number : {DefaultNumber},
     last : {FALSE}, random : {FALSE}, no_read : {FALSE}, no_write : {FALSE},
     prepend : {FALSE}, command : {FALSE},
     clear : {FALSE}, clear_first : {FALSE}, clear_last : {FALSE}]

sort_choose ==
    /\ Len(rounds) <= Cardinality(paths)
    /\ main_with(SortArgv)
    /\ UNCHANGED rounds

sort_round ==
    /\ choose_next_round
    /\ rounds' = IF chose_nothing THEN rounds ELSE Append(rounds, next_file')

SortNext ==
    \/ sort_choose
    \/ sort_round
    \/ exit

SpecSort == SortInit /\ [][SortNext]_vars

\* The leading number and the remainder of the segments of SortFiles, read off
\* the names.
leading ==
    [segment \in {<<"2">>, <<"3", " ", "e">>, <<"2", "0", " ", "e">>, <<"1", "0">>,
                  <<"5", " ", "e">>, <<"-", "1", " ", "e">>, <<"e">>, <<"0", " ", "x">>} |->
        IF segment = <<"2">> THEN [number |-> 2, remainder |-> <<>>]
        ELSE IF segment = <<"3", " ", "e">> THEN [number |-> 3, remainder |-> <<"e">>]
        ELSE IF segment = <<"2", "0", " ", "e">> THEN [number |-> 20, remainder |-> <<"e">>]
        ELSE IF segment = <<"1", "0">> THEN [number |-> 10, remainder |-> <<>>]
        ELSE IF segment = <<"5", " ", "e">> THEN [number |-> 5, remainder |-> <<"e">>]
        ELSE IF segment = <<"-", "1", " ", "e">> THEN [number |-> -1, remainder |-> <<"e">>]
        ELSE IF segment = <<"e">> THEN [number |-> 0, remainder |-> <<"e">>]
        ELSE [number |-> 0, remainder |-> <<"x">>]]

segment_lt(s, t) ==
    \/ leading[s].number < leading[t].number
    \/ /\ leading[s].number = leading[t].number
       /\ str_lt(strxfrm(leading[s].remainder), strxfrm(leading[t].remainder))

segments_lt(p, q) ==
    \E k \in 1..Len(q) :
        /\ k <= Len(p) + 1
        /\ \A j \in 1..(k - 1) : leading[p[j]] = leading[q[j]]
        /\ (k = Len(p) + 1 \/ segment_lt(p[k], q[k]))

\* the order of two paths, segment by segment from the left
path_lt(path, other) == segments_lt(split(path), split(other))

numeric_files ==
    << <<"2", "/", "3", " ", "e">>, <<"2", "/", "2", "0", " ", "e">>,
       <<"1", "0", "/", "5", " ", "e">> >>

Trees ==
    {tree \in SUBSET TreeEntries :
        \A e \in tree : Len(e.names) > 1 =>
            [names |-> SubSeq(e.names, 1, Len(e.names) - 1), dir |-> TRUE] \in tree}

\* the names of the directories (dir) or of the other entries in the directory at
scandir(tree, at, dir) ==
    {e.names[Len(e.names)] :
        e \in {f \in tree : /\ f.dir = dir
                           /\ Len(f.names) = Len(at) + 1
                           /\ SubSeq(f.names, 1, Len(at)) = at}}

\* a variant that removes nothing
remove_hidden_none(names) == names

remove_hidden(names) == {name \in names : ~startswith(name, <<".">>)}

\* fnmatch.fnmatch for the patterns *suffix
fnmatch(name, pat) ==
    /\ Len(name) >= Len(pat) - 1
    /\ SubSeq(name, Len(name) - Len(pat) + 2, Len(name)) = Tail(pat)

Patterns == {None, <<"*", "a">>, <<"*">>}

\* a variant in which the exclude pattern has the last word
kept_unless_excluded(abspath, exclude, include) ==
    exclude = None \/ ~fnmatch(abspath, exclude)

kept(abspath, exclude, include) ==
    \/ exclude = None
    \/ ~fnmatch(abspath, exclude)
    \/ (include # None /\ fnmatch(abspath, include))

ScanOptions ==
    [recursive : BOOLEAN, include_directories : BOOLEAN,
     exclude : Patterns, include : Patterns]

walk_names(files, dirs, opts) ==
    files \cup (IF opts.include_directories THEN dirs ELSE {})

walk_paths(names, top, root, opts) ==
    {relpath(path_join(root, name), top) :
        name \in {n \in names : kept(path_join(root, n), opts.exclude, opts.include)}}

RECURSIVE walk(_, _, _, _, _)
walk_dirs(tree, top, root, at, opts, dirs) ==
    walk_paths(walk_names(remove_hidden(scandir(tree, at, FALSE)), dirs, opts),
               top, root, opts)
    \cup (IF opts.recursive
          THEN UNION {walk(tree, top, path_join(root, d), Append(at, d), opts) : d \in dirs}
          ELSE {})

walk(tree, top, root, at, opts) ==
    walk_dirs(tree, top, root, at, opts, remove_hidden(scandir(tree, at, TRUE)))

read_dir(tree, path, opts) == walk(tree, path, path, <<>>, opts)

\* Scans: a tree is scanned, and Sequential and Random invocations choose from
\* what the scan returned; rounds keeps the tree and the options of the scan.
ScanInit ==
    /\ paths = {}
    /\ logfile = <<>>
    /\ logfile_exists = FALSE
    /\ pc = "read_dir"
    /\ args = NoArgs
    /\ i = 0
    /\ next_file = None
    /\ rewrite_logfile = FALSE
    /\ retval = 0
    /\ available_list = <<>>
    /\ logfile_content_list = <<>>
    /\ error = ""
    /\ rounds \in {<<[tree |-> tree, opts |-> opts]>> : tree \in Trees, opts \in ScanOptions}

scan_tree ==
    /\ pc = "read_dir"
    /\ paths' = read_dir(rounds[1].tree, RootDir, rounds[1].opts)
    /\ pc' = "idle"
    /\ UNCHANGED <<logfile, logfile_exists, args, i, next_file, rewrite_logfile, retval,
                   available_list, logfile_content_list, error, rounds>>

ScanArgv ==
    [dir : {RootDir}, files : {<<>>}, number : {DefaultNumber},
     last : {FALSE}, random : BOOLEAN, no_read : {FALSE}, no_write : {FALSE},
     prepend : {FALSE}, command : {FALSE},
     clear : {FALSE}, clear_first : {FALSE}, clear_last : {FALSE}]

scan_choose == main_with(ScanArgv) /\ UNCHANGED rounds

ScanNext ==
    \/ scan_tree
    \/ scan_choose
    \/ choose_next_file
    \/ exit

SpecScan == ScanInit /\ [][ScanNext]_vars

\* one of the names on the way to the entry starts with a dot
hidden(names) == \E k \in 1..Len(names) : names[k][1] = "."

\* C20: nothing that the scan returns, and nothing that a Sequential or a
\* Random round chooses, has a name starting with a dot on its way from the
\* root: hidden files, hidden directories and all that is below a hidden
\* directory stay out, with and without recursion and directories.
C20_hidden_excluded ==
    /\ \A path \in paths : ~hidden(split(path))
    /\ \A e \in rounds[1].tree : hidden(e.names) => join(e.names) \notin paths
    /\ returned => ~hidden(split(next_file))

\* a file chosen from the recursive scan, directories included, of the whole tree
C20_witness ==
    /\ rounds[1].tree = TreeEntries
    /\ rounds[1].opts.recursive
    /\ rounds[1].opts.include_directories
    /\ rounds[1].opts.exclude = None
    /\ paths = {<<"a">>, <<"x">>, <<"x", "/", "a">>}
    /\ returned


\* the entries that the scan comes to: not hidden, at the top or in a recursive
\* scan, and no directory unless directories are included
visited(tree, opts) ==
    {e \in tree : /\ ~hidden(e.names)
                  /\ opts.recursive \/ Len(e.names) = 1
                  /\ opts.include_directories \/ ~e.dir}

\* the path that the patterns are matched against
abspath_of(e) == path_join(RootDir, join(e.names))

\* C21: an entry that the scan comes to is left out of its result if and only
\* if an exclude pattern is set and matches the entry's path, and it is not so
\* that an include pattern is set and matches it too; an include pattern
\* without an exclude pattern leaves nothing out.
C21_exclude_unless_included ==
    pc # "read_dir" =>
        \A e \in visited(rounds[1].tree, rounds[1].opts) :
            /\ join(e.names) \notin paths
                   <=> /\ rounds[1].opts.exclude # None
                       /\ fnmatch(abspath_of(e), rounds[1].opts.exclude)
                       /\ ~(/\ rounds[1].opts.include # None
                            /\ fnmatch(abspath_of(e), rounds[1].opts.include))
            /\ rounds[1].opts.exclude = None => join(e.names) \in paths

\* everything is excluded, and what ends in a is included again
C21_witness ==
    /\ pc = "idle"
    /\ rounds[1].tree = TreeEntries
    /\ rounds[1].opts.recursive
    /\ rounds[1].opts.include_directories
    /\ rounds[1].opts.exclude = <<"*">>
    /\ rounds[1].opts.include = <<"*", "a">>
    /\ paths = {<<"a">>, <<"x", "/", "a">>}


(***************************************************************************)
(* logfile_path: the name of the log of a root in the log directory is     *)
(* quote_plus(root); a log under the old name, the root with "_" for every *)
(* separator, is renamed to it if there is no log under the new name.      *)
(***************************************************************************)
\* urllib.parse.quote_plus
quote_char(c) ==
    IF c = sep THEN <<"%", "2", "F">>
    ELSE IF c = " " THEN <<"+">>
    ELSE IF c = "+" THEN <<"%", "2", "B">>
    ELSE IF c = "%" THEN <<"%", "2", "5">>
    ELSE <<c>>

RECURSIVE quote_plus(_)
quote_plus(string) ==
    IF string = <<>> THEN <<>>
    ELSE quote_char(Head(string)) \o quote_plus(Tail(string))

\* str.replace(old, new) for single characters
replace(string, old, new) ==
    [k \in 1..Len(string) |-> IF string[k] = old THEN new ELSE string[k]]

old_logfile(dirpath) == replace(dirpath, sep, "_")

\* The files a log directory can hold, and a file that is not there.  A file
\* has its lines and the root under which they were written.
LogNames == {quote_plus(root) : root \in Roots} \cup {old_logfile(root) : root \in Roots}

NoFile == [exists |-> FALSE, lines |-> <<>>, root |-> None]

\* a variant that never looks for a log under the old name
logfile_path_unmigrated(dirpath, files) ==
    [logfile |-> quote_plus(dirpath), files |-> files]

\* the name of the log, and the log directory after os.rename
logfile_path(dirpath, files) ==
    [logfile |-> quote_plus(dirpath),
     files   |-> IF files[old_logfile(dirpath)].exists /\ ~files[quote_plus(dirpath)].exists
                 THEN [files EXCEPT ![quote_plus(dirpath)] = files[old_logfile(dirpath)],
                                    ![old_logfile(dirpath)] = NoFile]
                 ELSE files]

\* Log directories: invocations under the two roots, each with the default
\* log of its root; rounds keeps the files of the log directory, and logfile
\* is the log of the invocation that runs.  At the start the directory may
\* hold a log under the old name and empty logs under the new names.
LogdirInit ==
    /\ paths \in SUBSET Universe
    /\ logfile = <<>>
    /\ logfile_exists = FALSE
    /\ pc = "idle"
    /\ args = NoArgs
    /\ i = 0
    /\ next_file = None
    /\ rewrite_logfile = FALSE
    /\ retval = 0
    /\ available_list = <<>>
    /\ logfile_content_list = <<>>
    /\ error = ""
    /\ rounds \in {[name \in LogNames |->
                       IF name \in {old_logfile(root) : root \in Roots} THEN old
                       ELSE IF new[name] THEN [exists |-> TRUE, lines |-> <<>>,
                                               root |-> CHOOSE root \in Roots :
                                                            quote_plus(root) = name]
                       ELSE NoFile] :
                   old \in {NoFile} \cup [exists : {TRUE}, lines : lists_upto(Universe, MaxLog),
                                          root : Roots],
                   new \in [LogNames -> BOOLEAN]}

LogdirArgv(root) ==
    [dir : {root}, files : {<<>>}, number : {DefaultNumber},
     last : {FALSE}, random : {FALSE}, no_read : {FALSE}, no_write : {FALSE},
     prepend : {FALSE}, command : {FALSE},
     clear : {FALSE}, clear_first : {FALSE}, clear_last : {FALSE}]

\* main_throws without --logfile: args.logfile = logfile_path(args.dir)
logdir_open(resolved_log) ==
    /\ rounds' = resolved_log.files
    /\ logfile' = resolved_log.files[resolved_log.logfile].lines
    /\ logfile_exists' = resolved_log.files[resolved_log.logfile].exists

logdir_main ==
    /\ pc = "idle"
    /\ \E root \in Roots : \E argv \in LogdirArgv(root) :
           /\ logdir_open(logfile_path(root, rounds))
           /\ start(parsed(argv))
    /\ i' = 0
    /\ UNCHANGED <<paths, next_file, rewrite_logfile, retval, available_list,
                   logfile_content_list>>

\* the process ends, and the log directory has the log as the process left it
logdir_file(file) ==
    IF ~logfile_exists THEN NoFile
    ELSE [exists |-> TRUE, lines |-> logfile,
          root |-> IF file.exists THEN file.root ELSE args.dir]

logdir_exit ==
    /\ pc \in {"exit", "failed"}
    /\ rounds' = [rounds EXCEPT ![quote_plus(args.dir)] = logdir_file(@)]
    /\ pc' = "idle"
    /\ args' = NoArgs
    /\ i' = 0
    /\ next_file' = None
    /\ rewrite_logfile' = FALSE
    /\ retval' = 0
    /\ available_list' = <<>>
    /\ logfile_content_list' = <<>>
    /\ error' = ""
    /\ logfile' = <<>>
    /\ logfile_exists' = FALSE
    /\ UNCHANGED paths

LogdirNext ==
    \/ logdir_main
    \/ choose_next_file
    \/ logdir_exit

SpecLogdir == LogdirInit /\ [][LogdirNext]_vars

\* C22: two roots never have the same log, a root has the same log every
\* time, whatever the log directory holds, logs under old names too; so the
\* log that an invocation under a root reads and writes never holds the
\* history of another root.
C22_roots_keep_apart ==
    /\ \A r1, r2 \in Roots : r1 # r2 => quote_plus(r1) # quote_plus(r2)
    /\ \A root \in Roots :
           rounds[quote_plus(root)].exists => rounds[quote_plus(root)].root = root


\* the log under the old name and the log under the new name of the root of
\* the invocation that begins
old_log == rounds[old_logfile(args'.dir)]

new_log == rounds[quote_plus(args'.dir)]

\* C23: when an invocation begins and there is a log under the old name of
\* its root and none under the new name, the log is renamed: its history is
\* under the new name, unchanged, and it is the history the invocation uses;
\* when there is a log under the new name, the log under the old name is left
\* as it is and the history under the new name is used.
C23_old_log_migrated ==
    [][pc = "idle" /\ pc' = "choose_next" =>
           IF old_log.exists /\ ~new_log.exists
           THEN /\ rounds'[quote_plus(args'.dir)] = old_log
                /\ ~rounds'[old_logfile(args'.dir)].exists
                /\ logfile_exists'
                /\ logfile' = old_log.lines
           ELSE /\ rounds' = rounds
                /\ logfile_exists' = new_log.exists
                /\ logfile' = new_log.lines]_vars

\* a round has read the history b, a that was under the old name
C23_witness ==
    /\ pc = "exit"
    /\ returned
    /\ logfile_content_list = << <<"b">>, <<"a">> >>
    /\ ~rounds[old_logfile(args.dir)].exists
    /\ rounds[quote_plus(args.dir)].lines = logfile_content_list


(***************************************************************************)
(* Invocations whose log file may refuse to be written: open(path, 'wb')   *)
(* and open(path, 'ab') end with an errno as os.unlink does.  write_logfile *)
(* and logfile_append have no handler around open, so what is raised is    *)
(* the IOError itself.                                                     *)
(***************************************************************************)
\* open for writing: the errno it can end with
open_log(exists) == {"", "EACCES"}

\* the messages of the Errors the program raises; main prints 'prog: msg' for
\* these and for no other exception
Errors ==
    {"command failed", "no files available", Outside[1], "error reading logfile"}
        \cup {removing[errno] : errno \in DOMAIN removing}

\* whether the round's write step opens the log
opens_log(file, rv, content_list, rewrite) ==
    rv = 0 /\ ~args.no_write /\ (file \notin set_of(content_list) \/ rewrite)

\* a round up to its write step, whose open fails
round_denied(given, content_list, played_list, remaining, rewrite) ==
    /\ Outside \notin set_of(content_list)
    /\ ~none_available(given, remaining)
    /\ \E avail_list \in same_process(sorted_of(paths)) :
       \E file \in selected(args, given, avail_list, played_list, remaining) :
       \E rv \in IF args.command THEN {0, 1} ELSE {0} :
           /\ opens_log(file, rv, content_list, rewrite)
           /\ available_list' = avail_list
           /\ logfile_content_list' = content_list
           /\ rewrite_logfile' = rewrite
           /\ next_file' = file
           /\ retval' = rv
           /\ raise("IOError")
           /\ UNCHANGED <<paths, args, i, logfile, logfile_exists>>

WriteArgv ==
    [dir : {RootDir}, files : lists_upto(FileArgs, MaxFiles), number : {DefaultNumber},
     last : {FALSE}, random : {FALSE}, no_read : {FALSE}, no_write : BOOLEAN,
     prepend : BOOLEAN, command : BOOLEAN,
     clear : {FALSE}, clear_first : {FALSE}, clear_last : {FALSE}]

write_choose == main_with(WriteArgv) /\ UNCHANGED rounds

\* a round: the open of the write step succeeds or fails
write_round ==
    /\ pc = "choose_next"
    /\ \E errno \in open_log(logfile_exists) :
           IF errno = ""
           THEN round(explicit_of(args, i), read_logfile(logfile, args.dir))
           ELSE LET content_list == read_logfile(logfile, args.dir)
                    played_list == played_list_of(args, content_list)
                IN  round_denied(explicit_of(args, i), content_list, played_list,
                                 remaining_of(paths, played_list),
                                 wraps(paths, played_list))
    /\ UNCHANGED rounds

\* modify_logfile: write_logfile is called whenever the log has entries
write_modify ==
    /\ pc = "idle"
    /\ \E clear_first, clear_last \in BOOLEAN, errno \in open_log(logfile_exists) :
           /\ clear_first \/ clear_last
           /\ args' = [NoArgs EXCEPT !.dir = RootDir, !.clear_first = clear_first,
                                     !.clear_last = clear_last]
           /\ IF errno = "" \/ logfile = <<>>
                 \/ (clear_first /\ clear_last /\ Len(logfile) = 1)
              THEN modify_logfile(clear_first, clear_last)
              ELSE raise("IOError") /\ UNCHANGED <<logfile, logfile_exists>>
    /\ UNCHANGED <<paths, i, next_file, rewrite_logfile, retval, available_list,
                   logfile_content_list, rounds>>

WriteNext ==
    \/ write_choose
    \/ write_round
    \/ write_modify
    \/ main_clear
    \/ exit

SpecWrite == Init /\ [][WriteNext]_vars

\* C24: an invocation that fails, a failing write of the log included, fails
\* with an Error of the program, which main reports as 'prog: message'; no
\* other exception escapes (the IndexError of modify_logfile, which is raised
\* before the write, is left aside).
C24_failures_are_errors == (pc = "failed" /\ error # "IndexError") => error \in Errors



\* C25: a round under --no-read does not read the log, so that a log holding
\* a line that leads outside the root does not make it fail: such a round
\* fails only for want of files below the root.
C25_no_read_skips_log ==
    (pc = "failed" /\ args.no_read) => (error = "no files available" /\ paths = {})



\* if args.verbosity > 0: print(next_file_abs).  The print stands between the
\* command and the write step and looks at neither: a round prints the file
\* it selected whatever the command returned and whether or not the write
\* that follows succeeds.  With one round an invocation, this is what the
\* invocation has printed.
stdout == IF next_file = None THEN <<>> ELSE <<path_join(args.dir, next_file)>>

\* C26: the steps of a round are read, scan, select, command, write, print in
\* this order, and a failing step ends the run: a round whose command fails
\* writes nothing and prints nothing, and a round whose write fails prints
\* nothing, the print coming after the write.
C26_failed_round_prints_nothing ==
    [][pc' = "failed" /\ error' \in {"command failed", "IOError"} =>
           stdout' = <<>> /\ logfile' = logfile]_vars



(***************************************************************************)
(* choose_next's loop as a function: the log and the file of round k of    *)
(* one invocation that runs Sequential rounds from an empty log, every     *)
(* round sorting the candidates into the same list.                        *)
(***************************************************************************)
RECURSIVE batch_log(_, _, _)
batch_file(list, a, k) ==
    LET played_list == played_list_of(a, read_logfile(batch_log(list, a, k - 1), RootDir))
    IN  next_sequential(list, played_list, remaining_of(paths, played_list))

batch_log(list, a, k) ==
    IF k = 0 THEN <<>>
    ELSE LET lines == batch_log(list, a, k - 1)
             content_list == read_logfile(lines, RootDir)
             played_list == played_list_of(a, content_list)
         IN  IF a.no_write THEN lines
             ELSE written(a, lines, content_list, batch_file(list, a, k),
                          wraps(paths, played_list))

\* the rounds of the session are Sequential rounds with the same options
same_sequential ==
    /\ rounds # <<>>
    /\ \A k \in 1..Len(rounds) : rounds[k].args = rounds[1].args /\ ~rounds[k].args.last

\* C27: k invocations of one Sequential round each, with the same options over
\* the same candidates, choose the files and leave the log that one
\* invocation of k rounds chooses and leaves.
C27_batch_as_singles ==
    same_sequential =>
        \E list \in sorted_lists[paths] :
            /\ \A k \in 1..Len(rounds) : rounds[k].file = batch_file(list, rounds[1].args, k)
            /\ logfile = batch_log(list, rounds[1].args, Len(rounds))



C29_last_keeps_log ==
    (returned /\ args.last /\ explicit = None /\ history # <<>>)
        => records = logfile_content_list



\* what a Sequential round over the log and the candidates of this state
\* chooses if the candidates sort into list
sequential_choice(list) ==
    LET played_list == played_list_of(args, read_logfile(logfile, args.dir))
    IN  next_sequential(list, played_list, remaining_of(paths, played_list))

\* the log such a round leaves when it writes
sequential_log(list) ==
    LET content_list == read_logfile(logfile, args.dir)
    IN  written(args, logfile, content_list, sequential_choice(list),
                wraps(paths, played_list_of(args, content_list)))

\* the step is a Sequential round that chooses a file
sequential_round ==
    /\ pc = "choose_next"
    /\ ~args.last /\ ~args.random /\ args.files = <<>>
    /\ next_file' # None

\* C30: the entry a Sequential round chooses and the log it leaves are fixed
\* by the candidates, the log and the options: they are the same whichever
\* way candidates with equal keys come to stand in the sorted list.
C30_sequential_deterministic ==
    [][sequential_round =>
           \A list \in sorted_of(paths) :
               /\ next_file' = sequential_choice(list)
               /\ (retval' = 0 /\ ~args.no_write) => logfile' = sequential_log(list)]_vars



(***************************************************************************)
(* Runs with FILE arguments: one invocation with up to MaxGiven FILEs and  *)
(* --number rounds.  rounds holds the --number of the command line and     *)
(* behind it what every round of the invocation chose.                     *)
(***************************************************************************)
MaxGiven == 2

FilesArgv ==
    [dir : {RootDir}, files : lists_upto(FileArgs, MaxGiven), number : 0..MaxNumber,
     last : BOOLEAN, random : BOOLEAN, no_read : {FALSE}, no_write : {FALSE},
     prepend : {FALSE}, command : {FALSE},
     clear : {FALSE}, clear_first : {FALSE}, clear_last : {FALSE}]

files_choose ==
    /\ pc = "idle"
    /\ \E argv \in FilesArgv :
           /\ start(parsed(argv))
           /\ rounds' = <<[number |-> argv.number]>>
    /\ i' = 0
    /\ UNCHANGED <<paths, logfile, logfile_exists, next_file, rewrite_logfile, retval,
                   available_list, logfile_content_list>>

files_round ==
    /\ choose_next_round
    /\ rounds' = IF chose_nothing THEN rounds ELSE Append(rounds, run_record)

FilesNext ==
    \/ files_choose
    \/ files_round
    \/ exit

SpecFiles == Init /\ [][FilesNext]_vars

\* the rounds of the running invocation that chose a file, and its --number
chosen_rounds == Tail(rounds)

requested == rounds[1].number

\* the last round chose by the mode of the command line
chosen_by_mode ==
    LET played_list == played_list_of(args, logfile_content_list)
    IN  next_file \in selected(args, None, available_list, played_list,
                               remaining_of(paths, played_list))

\* C31: round j of a run chooses the j-th FILE of the command line as long as
\* there is one, the rounds behind the FILEs choose by the mode, and a run
\* that comes to its end has chosen every FILE, also when --number is less
\* than the number of FILEs: it then has run as many rounds as there are FILEs.
C31_files_by_position ==
    pc \in {"choose_next", "exit", "failed"} /\ args # NoArgs =>
        /\ \A j \in 1..Len(chosen_rounds) :
               j <= Len(args.files) => chosen_rounds[j].file = args.files[j]
        /\ Len(chosen_rounds) > Len(args.files) /\ returned => chosen_by_mode
        /\ pc = "exit" =>
               /\ Len(chosen_rounds) >= Len(args.files)
               /\ requested < Len(args.files) => Len(chosen_rounds) = Len(args.files)

\* a run of two FILEs under --number 1 has come to its end after two rounds,
\* the second FILE being one that is not below the root as a candidate
C31_witness ==
    /\ pc = "exit"
    /\ requested = 1
    /\ Len(args.files) = 2
    /\ args.files[1] # args.files[2]
    /\ Len(chosen_rounds) = 2
    /\ chosen_rounds[2].file = args.files[2]
    /\ args.files[2] \notin paths


====
